---- MODULE Spec2Model ----
(***************************************************************************)
(* State-machine model of the React todo-list tutorial application.       *)
(*                                                                         *)
(* Two stages of the application are in the sources:                       *)
(*   "inline"     - src/src/App.tsx as it stands: the form lives in App,   *)
(*                  handleSubmit has no guard, nothing is persisted;       *)
(*   "components" - the refactored application of the tutorial             *)
(*                  (NewTodoForm + addTodo, the useState initializer       *)
(*                  reading localStorage and the useEffect writing it).    *)
(* toggleTodo and deleteTodo are the same code in both stages.             *)
(*                                                                         *)
(* One action is one browser event: the handler, the re-render React does  *)
(* synchronously at the end of a discrete event, and the effect of that    *)
(* render.  Strings are sequences of one-character strings, so that JSON   *)
(* escaping is something stringify and parse really have to do.            *)
(*                                                                         *)
(* queue and pending are React's update queues of the two state hooks:     *)
(* the setTodos updaters and the setNewItem value not yet rendered.  They  *)
(* are empty between events; SpecBatch is the specification in which       *)
(* several handlers run before React renders.                              *)
(*                                                                         *)
(* refactored is a second page, running the refactored application next   *)
(* to the page of the other variables: SpecForms gives both pages the same *)
(* typing and submit events.  Elsewhere it stays as mounted.               *)
(***************************************************************************)
EXTENDS Integers, Sequences, FiniteSets, TLC

VARIABLES variant, status, todos, newItem, store, localValue, issued, lastEvent,
          queue, pending, refactored

vars == <<variant, status, todos, newItem, store, localValue, issued, lastEvent,
          queue, pending, refactored>>

(* ------------------------------- bounds -------------------------------- *)

MaxTodos == 2

MaxIds == 3

\* handlers that may run before React renders
MaxBatch == 2

(* ------------------------------ strings -------------------------------- *)

\* the values the text input takes: empty, plain, and one in which both
\* characters need escaping
Titles == { <<>>, <<"a">>, <<"\\", "\"">> }

\* crypto.randomUUID() values; their characters never need escaping
UUIDPool == <<"1", "2", "3", "4", "5", "6", "7", "8">>

UUIDs == {UUIDPool[i] : i \in 1..MaxIds}

(* -------------------- JSON.stringify of a Todo[] ----------------------- *)

\* an encoder that escapes the quote and forgets the backslash
RECURSIVE EscapeQuoteOnly(_)
EscapeQuoteOnly(s) ==
  IF s = <<>> THEN <<>>
  ELSE LET c == Head(s)
       IN  (IF c = "\"" THEN <<"\\", c>> ELSE <<c>>) \o EscapeQuoteOnly(Tail(s))

\* JSON.stringify's QuoteJSONString: '"' and '\' are written with a backslash
RECURSIVE Escape(_)
Escape(s) ==
  IF s = <<>> THEN <<>>
  ELSE LET c == Head(s)
       IN  (IF c \in {"\"", "\\"} THEN <<"\\", c>> ELSE <<c>>) \o Escape(Tail(s))

Quote(s) == <<"\"">> \o Escape(s) \o <<"\"">>

KeyId == <<"{", "\"", "i", "d", "\"", ":">>

KeyTitle == <<",", "\"", "t", "i", "t", "l", "e", "\"", ":">>

KeyCompleted == <<",", "\"", "c", "o", "m", "p", "l", "e", "t", "e", "d", "\"", ":">>

LitTrue == <<"t", "r", "u", "e">>

LitFalse == <<"f", "a", "l", "s", "e">>

\* one record, keys in insertion order: id, title, completed
StringifyTodo(todo) ==
  KeyId \o Quote(<<todo.id>>) \o KeyTitle \o Quote(todo.title)
    \o KeyCompleted \o (IF todo.completed THEN LitTrue ELSE LitFalse) \o <<"}">>

RECURSIVE StringifyElements(_)
StringifyElements(list) ==
  IF list = <<>> THEN <<>>
  ELSE IF Len(list) = 1 THEN StringifyTodo(list[1])
  ELSE StringifyTodo(Head(list)) \o <<",">> \o StringifyElements(Tail(list))

JSONstringify(list) == <<"[">> \o StringifyElements(list) \o <<"]">>

(* ---------------------- JSON.parse of a text --------------------------- *)
(* The parser accepts the texts JSON.stringify writes for a Todo[] (no     *)
(* white space, keys in the order above, the escapes \" and \\) and throws *)
(* on everything else.  The texts the model feeds it are of these two      *)
(* kinds only: written by the application, or malformed for a real         *)
(* JSON.parse as well.                                                     *)

SyntaxError == [ok |-> FALSE, next |-> 0]

StartsWith(text, i, lit) ==
  /\ i + Len(lit) - 1 <= Len(text)
  /\ \A k \in 1..Len(lit) : text[i + k - 1] = lit[k]

RECURSIVE ReadChars(_, _, _)
ReadChars(text, i, acc) ==
  IF i > Len(text) THEN SyntaxError
  ELSE IF text[i] = "\"" THEN [ok |-> TRUE, next |-> i + 1, value |-> acc]
  ELSE IF text[i] = "\\"
       THEN IF i + 1 <= Len(text) /\ text[i + 1] \in {"\"", "\\"}
            THEN ReadChars(text, i + 2, Append(acc, text[i + 1]))
            ELSE SyntaxError
  ELSE ReadChars(text, i + 1, Append(acc, text[i]))

ParseString(text, i) ==
  IF StartsWith(text, i, <<"\"">>) THEN ReadChars(text, i + 1, <<>>) ELSE SyntaxError

ParseBoolean(text, i) ==
  IF StartsWith(text, i, LitTrue) THEN [ok |-> TRUE, next |-> i + 4, value |-> TRUE]
  ELSE IF StartsWith(text, i, LitFalse) THEN [ok |-> TRUE, next |-> i + 5, value |-> FALSE]
  ELSE SyntaxError

\* a UUID is one character of the pool here
ParseTodo(text, i) ==
  IF ~StartsWith(text, i, KeyId) THEN SyntaxError
  ELSE LET id == ParseString(text, i + Len(KeyId))
       IN  IF ~id.ok \/ Len(id.value) # 1 THEN SyntaxError
           ELSE IF ~StartsWith(text, id.next, KeyTitle) THEN SyntaxError
           ELSE LET title == ParseString(text, id.next + Len(KeyTitle))
                IN  IF ~title.ok THEN SyntaxError
                    ELSE IF ~StartsWith(text, title.next, KeyCompleted) THEN SyntaxError
                    ELSE LET completed == ParseBoolean(text, title.next + Len(KeyCompleted))
                         IN  IF ~completed.ok THEN SyntaxError
                             ELSE IF ~StartsWith(text, completed.next, <<"}">>) THEN SyntaxError
                             ELSE [ok |-> TRUE, next |-> completed.next + 1,
                                   value |-> [id |-> id.value[1], title |-> title.value,
                                              completed |-> completed.value]]

RECURSIVE ParseElements(_, _, _)
ParseElements(text, i, acc) ==
  LET todo == ParseTodo(text, i)
  IN  IF ~todo.ok THEN SyntaxError
      ELSE IF StartsWith(text, todo.next, <<",">>)
           THEN ParseElements(text, todo.next + 1, Append(acc, todo.value))
      ELSE IF StartsWith(text, todo.next, <<"]">>)
           THEN [ok |-> TRUE, next |-> todo.next + 1, value |-> Append(acc, todo.value)]
      ELSE SyntaxError

\* ok = FALSE stands for the SyntaxError JSON.parse throws
JSONparse(text) ==
  LET array == IF StartsWith(text, 1, <<"[", "]">>) THEN [ok |-> TRUE, next |-> 3, value |-> <<>>]
               ELSE IF StartsWith(text, 1, <<"[">>) THEN ParseElements(text, 2, <<>>)
               ELSE SyntaxError
  IN  IF array.ok /\ array.next = Len(text) + 1 THEN [ok |-> TRUE, value |-> array.value]
      ELSE [ok |-> FALSE, value |-> <<>>]

(* --------------------------- the todo list ----------------------------- *)

Todo == [id : UUIDs, title : Titles, completed : BOOLEAN]

Ids(list) == {list[i].id : i \in DOMAIN list}

\* a slip of the add updater: the spread of currentTodos left out
AddUpdaterNoSpread(currentTodos, id, title) ==
  <<[id |-> id, title |-> title, completed |-> FALSE]>>

\* a slip of the add updater: the new record put in front of the copy
AddUpdaterPrepend(currentTodos, id, title) ==
  <<[id |-> id, title |-> title, completed |-> FALSE]>> \o currentTodos

\* the updater of addTodo / of the inline handleSubmit
AddUpdater(currentTodos, id, title) ==
  Append(currentTodos, [id |-> id, title |-> title, completed |-> FALSE])

\* a slip of the toggle updater: the spread of todo left out, the title lost
ToggleUpdaterNoSpread(currentTodos, id, completed) ==
  [i \in DOMAIN currentTodos |->
     IF currentTodos[i].id = id
     THEN [id |-> id, title |-> <<>>, completed |-> completed]
     ELSE currentTodos[i]]

\* a slip of the toggle updater: the flag negated, the argument ignored
ToggleUpdaterFlip(currentTodos, id, completed) ==
  [i \in DOMAIN currentTodos |->
     IF currentTodos[i].id = id
     THEN [currentTodos[i] EXCEPT !.completed = ~currentTodos[i].completed]
     ELSE currentTodos[i]]

\* a slip of the toggle updater: the id test dropped, every record replaced
ToggleUpdaterAll(currentTodos, id, completed) ==
  [i \in DOMAIN currentTodos |-> [currentTodos[i] EXCEPT !.completed = completed]]

\* the updater of toggleTodo: map, replacing the record whose id matches
ToggleUpdater(currentTodos, id, completed) ==
  [i \in DOMAIN currentTodos |->
     IF currentTodos[i].id = id
     THEN [currentTodos[i] EXCEPT !.completed = completed]
     ELSE currentTodos[i]]

\* a slip of the delete updater: splice(findIndex(...), 1), which drops the
\* last record when the id is not found
RECURSIVE DeleteUpdaterSplice(_, _)
DeleteUpdaterSplice(currentTodos, id) ==
  IF currentTodos = <<>> THEN <<>>
  ELSE IF \A i \in DOMAIN currentTodos : currentTodos[i].id # id
       THEN SubSeq(currentTodos, 1, Len(currentTodos) - 1)
       ELSE IF Head(currentTodos).id = id THEN Tail(currentTodos)
            ELSE <<Head(currentTodos)>> \o DeleteUpdaterSplice(Tail(currentTodos), id)

\* a slip of the delete updater: the first record dropped, whatever the id
DeleteUpdaterShift(currentTodos, id) ==
  IF currentTodos = <<>> THEN <<>> ELSE Tail(currentTodos)

\* a slip of the delete updater: the last record dropped, whatever the id
DeleteUpdaterPop(currentTodos, id) ==
  SubSeq(currentTodos, 1, Len(currentTodos) - 1)

\* a slip of the delete updater: filter on todo.id === id
RECURSIVE DeleteUpdaterKeep(_, _)
DeleteUpdaterKeep(currentTodos, id) ==
  IF currentTodos = <<>> THEN <<>>
  ELSE IF Head(currentTodos).id = id
       THEN <<Head(currentTodos)>> \o DeleteUpdaterKeep(Tail(currentTodos), id)
       ELSE DeleteUpdaterKeep(Tail(currentTodos), id)

\* the updater of deleteTodo: filter on todo.id !== id
RECURSIVE DeleteUpdater(_, _)
DeleteUpdater(currentTodos, id) ==
  IF currentTodos = <<>> THEN <<>>
  ELSE IF Head(currentTodos).id # id
       THEN <<Head(currentTodos)>> \o DeleteUpdater(Tail(currentTodos), id)
       ELSE DeleteUpdater(Tail(currentTodos), id)

\* an identifier source that can repeat itself
randomUUIDRepeating == UUIDs

\* crypto.randomUUID(): a version 4 UUID, one that was never handed out
randomUUID == UUIDs \ issued

(* ------------------------- the persisted store ------------------------- *)

\* localStorage.getItem("ITEMS") is null when the key was never written
Absent == [present |-> FALSE, text |-> <<>>]

Stored(text) == [present |-> TRUE, text |-> text]

\* useEffect(() => localStorage.setItem("ITEMS", JSON.stringify(todos)), [todos])
PersistEffect(list) == Stored(JSONstringify(list))

\* a slip of the effect: an empty dependency array, so it runs on mount only
StoreAfterRenderMountOnly(list) == store

\* the store after the render that committed list: only the refactored
\* application has the effect
StoreAfterRender(list) ==
  IF variant = "components" THEN PersistEffect(list) ELSE store

\* what the initializer found in localValue: the variable itself is gone when
\* the initializer returns, the branch it took is what start-up depends on
LocalValueKind(value) ==
  IF ~value.present THEN "null"
  ELSE IF JSONparse(value.text).ok THEN "parsed" ELSE "unparsable"

\* the useState initializer: does JSON.parse throw while App first renders?
InitializerThrows(value) == value.present /\ ~JSONparse(value.text).ok

\* a slip of the initializer: the stored value is never read back
InitialTodosEmpty(value) == <<>>

\* the useState initializer: the list it returns
InitialTodos(value) ==
  IF ~value.present THEN <<>> ELSE JSONparse(value.text).value

\* what localStorage can hold when the page is first opened: nothing, a text
\* an earlier session of the application wrote, or a damaged text
SavedLists ==
  { <<>>,
    <<[id |-> "1", title |-> <<"a">>, completed |-> TRUE]>> }

DamagedTexts == { <<>>, <<"[", "{">> }

InitialStores ==
  {Absent} \cup {Stored(JSONstringify(l)) : l \in SavedLists}
           \cup {Stored(t) : t \in DamagedTexts}

(* ------------------------------ start-up ------------------------------- *)

\* no setNewItem call is waiting for a render
NoPending == [set |-> FALSE, value |-> <<>>]

\* the refactored application mounted on an empty browser: the initializer
\* finds no "ITEMS" key and returns [], NewTodoForm's input starts empty, the
\* effect of the first render writes the empty list
RefactoredMount ==
  [todos |-> <<>>, newItem |-> <<>>, store |-> PersistEffect(<<>>), issued |-> {}]

\* mounting App: the initializer reads the store, the first render commits,
\* the effect runs.  A throwing initializer leaves nothing mounted.
Init ==
  /\ variant \in {"inline", "components"}
  /\ \E value \in InitialStores :
       IF variant = "inline"
       THEN /\ value = Absent
            /\ status = "running"
            /\ todos = <<>>
            /\ store = value
            /\ localValue = "none"
            /\ issued = {}
       ELSE /\ localValue = LocalValueKind(value)
            /\ issued = Ids(InitialTodos(value))
            /\ IF InitializerThrows(value)
               THEN /\ status = "crashed"
                    /\ todos = <<>>
                    /\ store = value
               ELSE /\ status = "running"
                    /\ todos = InitialTodos(value)
                    /\ store = PersistEffect(InitialTodos(value))
  /\ newItem = <<>>
  /\ lastEvent = "mount"
  /\ queue = <<>>
  /\ pending = NoPending
  /\ refactored = RefactoredMount

(* ------------------------------- events -------------------------------- *)

\* a slip of the state: input text and list kept in one state object, and the
\* change handler setting it without spreading the rest, so the list is lost
setNewItemDroppingTodos(value) ==
  /\ status = "running"
  /\ newItem' = value
  /\ todos' = <<>>
  /\ lastEvent' = "change"
  /\ UNCHANGED <<refactored, variant, status, store, localValue, issued, queue, pending>>

\* onChange of the text input: setNewItem(e.target.value)
setNewItem(value) ==
  /\ status = "running"
  /\ newItem' = value
  /\ lastEvent' = "change"
  /\ UNCHANGED <<refactored, variant, status, todos, store, localValue, issued, queue, pending>>

\* App.addTodo(title) of the refactored application
addTodo(title) ==
  /\ Len(todos) < MaxTodos
  /\ \E id \in randomUUID :
       /\ todos' = AddUpdater(todos, id, title)
       /\ issued' = issued \cup {id}
  /\ store' = StoreAfterRender(todos')

\* NewTodoForm.handleSubmit
NewTodoFormHandleSubmit ==
  /\ status = "running"
  /\ variant = "components"
  /\ IF newItem = <<>>
     THEN UNCHANGED <<todos, issued, store, newItem>>
     ELSE /\ addTodo(newItem)
          /\ newItem' = <<>>
  /\ lastEvent' = "submit"
  /\ UNCHANGED <<refactored, variant, status, localValue, queue, pending>>

\* handleSubmit of src/src/App.tsx
AppHandleSubmit ==
  /\ status = "running"
  /\ variant = "inline"
  /\ Len(todos) < MaxTodos
  /\ \E id \in randomUUID :
       /\ todos' = AddUpdater(todos, id, newItem)
       /\ issued' = issued \cup {id}
  /\ store' = StoreAfterRender(todos')
  /\ newItem' = <<>>
  /\ lastEvent' = "submit"
  /\ UNCHANGED <<refactored, variant, status, localValue, queue, pending>>

\* toggleTodo(id, completed)
toggleTodo(id, completed) ==
  /\ todos' = ToggleUpdater(todos, id, completed)
  /\ store' = StoreAfterRender(todos')
  /\ UNCHANGED <<refactored, variant, status, newItem, localValue, issued, queue, pending>>

\* onChange of the checkbox of a rendered item: e.target.checked is the
\* opposite of the checked prop it was rendered with
CheckboxChange(id) ==
  /\ status = "running"
  /\ \E i \in DOMAIN todos :
       /\ todos[i].id = id
       /\ toggleTodo(id, ~todos[i].completed)
  /\ lastEvent' = "toggle"

\* onClick of the Delete button of a rendered item: deleteTodo(id)
deleteTodo(id) ==
  /\ status = "running"
  /\ id \in Ids(todos)
  /\ todos' = DeleteUpdater(todos, id)
  /\ store' = StoreAfterRender(todos')
  /\ lastEvent' = "delete"
  /\ UNCHANGED <<refactored, variant, status, newItem, localValue, issued, queue, pending>>

\* the page is reloaded: every component state is dropped and App mounts
\* again from what localStorage holds
Reload ==
  /\ newItem' = <<>>
  /\ lastEvent' = "reload"
  /\ UNCHANGED <<refactored, variant, issued, queue, pending>>
  /\ IF variant = "inline"
     THEN /\ status' = "running"
          /\ todos' = <<>>
          /\ UNCHANGED <<store, localValue>>
     ELSE /\ localValue' = LocalValueKind(store)
          /\ IF InitializerThrows(store)
             THEN /\ status' = "crashed"
                  /\ todos' = <<>>
                  /\ UNCHANGED store
             ELSE /\ status' = "running"
                  /\ todos' = InitialTodos(store)
                  /\ store' = PersistEffect(todos')

Next ==
  \/ \E value \in Titles : setNewItem(value)
  \/ NewTodoFormHandleSubmit
  \/ AppHandleSubmit
  \/ \E id \in UUIDs : CheckboxChange(id)
  \/ \E id \in UUIDs : deleteTodo(id)
  \/ Reload

Spec == Init /\ [][Next]_vars

TypeOK ==
  /\ variant \in {"inline", "components"}
  /\ status \in {"running", "crashed"}
  /\ todos \in Seq(Todo)
  /\ Len(todos) <= MaxTodos
  /\ newItem \in Titles
  /\ issued \subseteq UUIDs
  /\ localValue \in {"none", "null", "parsed", "unparsable"}
  /\ refactored.todos \in Seq(Todo)
  /\ refactored.newItem \in Titles

(* ------------------------------ the view ------------------------------- *)

\* a slip of the list view: the test of the placeholder turned around
TodoListInverted(list) ==
  (IF Len(list) # 0 THEN <<[kind |-> "text", text |-> "No Todos yet"]>> ELSE <<>>)
    \o [i \in DOMAIN list |->
          [kind |-> "TodoItem", key |-> list[i].id, id |-> list[i].id,
           title |-> list[i].title, completed |-> list[i].completed]]

\* the children of the <ul> of TodoList: false renders nothing, the string
\* renders as a text node, the map gives one TodoItem per record ({...todo})
TodoList(list) ==
  (IF Len(list) = 0 THEN <<[kind |-> "text", text |-> "No Todos yet"]>> ELSE <<>>)
    \o [i \in DOMAIN list |->
          [kind |-> "TodoItem", key |-> list[i].id, id |-> list[i].id,
           title |-> list[i].title, completed |-> list[i].completed]]

(* --------------------------- direct calls ------------------------------ *)
(* toggleTodo and deleteTodo are handed down as props: SpecCalls has them  *)
(* called with any identifier and any flag, not only those of a rendered   *)
(* item.                                                                   *)

CallToggleTodo(id, completed) ==
  /\ status = "running"
  /\ toggleTodo(id, completed)
  /\ lastEvent' = "toggle"

CallDeleteTodo(id) ==
  /\ status = "running"
  /\ todos' = DeleteUpdater(todos, id)
  /\ store' = StoreAfterRender(todos')
  /\ lastEvent' = "delete"
  /\ UNCHANGED <<refactored, variant, status, newItem, localValue, issued, queue, pending>>

\* the calls are made on src/src/App.tsx, where the two functions are
InitCalls ==
  /\ Init
  /\ variant = "inline"

NextCalls ==
  \/ \E value \in Titles : setNewItem(value)
  \/ AppHandleSubmit
  \/ \E id \in UUIDs, completed \in BOOLEAN : CallToggleTodo(id, completed)
  \/ \E id \in UUIDs : CallDeleteTodo(id)

SpecCalls == InitCalls /\ [][NextCalls]_vars

(* --------------------------- batched updates --------------------------- *)
(* Handlers that run before React renders only queue their set-state       *)
(* calls and all read the state of the last render: newItem and todos are  *)
(* that state.  Render processes the queues, commits and runs the effect.  *)

\* the three setTodos updaters as queued; the identifier the add updater
\* draws is fixed when it is queued (never-issued identifiers are alike)
AddUpdate(id, title) ==
  [op |-> "add", id |-> id, title |-> title, completed |-> FALSE]

ToggleUpdate(id, completed) ==
  [op |-> "toggle", id |-> id, title |-> <<>>, completed |-> completed]

DeleteUpdate(id) ==
  [op |-> "delete", id |-> id, title |-> <<>>, completed |-> FALSE]

\* calling a queued updater on currentTodos
RunUpdater(update, currentTodos) ==
  CASE update.op = "add" -> AddUpdater(currentTodos, update.id, update.title)
    [] update.op = "toggle" -> ToggleUpdater(currentTodos, update.id, update.completed)
    [] update.op = "delete" -> DeleteUpdater(currentTodos, update.id)

\* what a handler would queue had it written setTodos([...todos, x]): a
\* value computed from the list of the last render
ApplyUpdateStale(update, currentTodos, rendered) == RunUpdater(update, rendered)

\* setTodos(currentTodos => ...): React calls the function with the state
\* the previous update of the queue produced
ApplyUpdate(update, currentTodos, rendered) == RunUpdater(update, currentTodos)

RECURSIVE ProcessUpdateQueue(_, _, _)
ProcessUpdateQueue(currentTodos, updates, rendered) ==
  IF updates = <<>> THEN currentTodos
  ELSE ProcessUpdateQueue(ApplyUpdate(Head(updates), currentTodos, rendered),
                          Tail(updates), rendered)

QueuedAdds == Cardinality({k \in DOMAIN queue : queue[k].op = "add"})

\* setTodos(updater) inside a handler
Enqueue(update) ==
  /\ Len(queue) < MaxBatch
  /\ queue' = Append(queue, update)

\* onChange of the text input
BatchSetNewItem(value) ==
  /\ status = "running"
  /\ pending' = [set |-> TRUE, value |-> value]
  /\ lastEvent' = "change"
  /\ UNCHANGED <<refactored, variant, status, todos, newItem, store, localValue, issued, queue>>

\* identifiers are only ever compared for equality, so in the batched runs
\* one never-issued identifier stands for all of them: the first of the pool
FreshUUIDs ==
  {UUIDPool[i] : i \in {k \in 1..MaxIds : /\ UUIDPool[k] \in randomUUID
                                         /\ \A j \in 1..(k - 1) : UUIDPool[j] \in issued}}

\* App.addTodo(title)
BatchAddTodo(title) ==
  /\ Len(todos) + QueuedAdds < MaxTodos
  /\ \E id \in FreshUUIDs :
       /\ Enqueue(AddUpdate(id, title))
       /\ issued' = issued \cup {id}

\* a slip of the form: the guard on the empty title left out
BatchNewTodoFormHandleSubmitNoGuard ==
  /\ status = "running"
  /\ variant = "components"
  /\ BatchAddTodo(newItem)
  /\ pending' = [set |-> TRUE, value |-> <<>>]
  /\ lastEvent' = "submit"
  /\ UNCHANGED <<refactored, variant, status, todos, newItem, store, localValue>>

\* NewTodoForm.handleSubmit: newItem is the value of the last render.  In
\* the batched runs lastEvent tells a submission that returned early
\* ("ignored") from one that went on to addTodo ("submit").
BatchNewTodoFormHandleSubmit ==
  /\ status = "running"
  /\ variant = "components"
  /\ IF newItem = <<>>
     THEN /\ lastEvent' = "ignored"
          /\ UNCHANGED <<queue, issued, pending>>
     ELSE /\ BatchAddTodo(newItem)
          /\ pending' = [set |-> TRUE, value |-> <<>>]
          /\ lastEvent' = "submit"
  /\ UNCHANGED <<refactored, variant, status, todos, newItem, store, localValue>>

\* onChange of the checkbox of an item of the last render
BatchCheckboxChange(id) ==
  /\ status = "running"
  /\ \E i \in DOMAIN todos :
       /\ todos[i].id = id
       /\ Enqueue(ToggleUpdate(id, ~todos[i].completed))
  /\ lastEvent' = "toggle"
  /\ UNCHANGED <<refactored, variant, status, todos, newItem, store, localValue, issued, pending>>

\* onClick of the Delete button of an item of the last render
BatchDeleteTodo(id) ==
  /\ status = "running"
  /\ id \in Ids(todos)
  /\ Enqueue(DeleteUpdate(id))
  /\ lastEvent' = "delete"
  /\ UNCHANGED <<refactored, variant, status, todos, newItem, store, localValue, issued, pending>>

\* React renders: both queues are processed, the effect runs when a
\* setTodos call was processed
Render ==
  /\ queue # <<>> \/ pending.set
  /\ todos' = ProcessUpdateQueue(todos, queue, todos)
  /\ newItem' = IF pending.set THEN pending.value ELSE newItem
  /\ store' = IF queue # <<>> THEN StoreAfterRender(todos') ELSE store
  /\ queue' = <<>>
  /\ pending' = NoPending
  /\ UNCHANGED <<refactored, variant, status, localValue, issued, lastEvent>>

\* the values typed in the batched runs: the escapes play no part there
BatchTitles == { <<>>, <<"a">> }

\* batches are run on the mounted refactored application: the updaters are
\* the same code in both variants
InitBatch ==
  /\ Init
  /\ variant = "components"
  /\ status = "running"

NextBatch ==
  \/ \E value \in BatchTitles : BatchSetNewItem(value)
  \/ BatchNewTodoFormHandleSubmit
  \/ \E id \in UUIDs : BatchCheckboxChange(id)
  \/ \E id \in UUIDs : BatchDeleteTodo(id)
  \/ Render

SpecBatch == InitBatch /\ [][NextBatch]_vars

(* ----------------------------- the scenario ---------------------------- *)
(* The session of the specification's last testable property, played on    *)
(* the handlers above: every keystroke is one change event of the input.   *)

BuyMilk == <<"B", "u", "y", " ", "m", "i", "l", "k">>

WalkDog == <<"W", "a", "l", "k", " ", "d", "o", "g">>

\* the next keystroke of a title being typed
TypeNextChar(target) ==
  /\ Len(newItem) < Len(target)
  /\ newItem = SubSeq(target, 1, Len(newItem))
  /\ setNewItem(SubSeq(target, 1, Len(newItem) + 1))

InitScenario ==
  /\ Init
  /\ status = "running"
  /\ todos = <<>>

ScenarioTypeBuyMilk ==
  /\ todos = <<>>
  /\ issued = {}
  /\ lastEvent \in {"mount", "change"}
  /\ TypeNextChar(BuyMilk)

ScenarioAddBuyMilk ==
  /\ todos = <<>>
  /\ newItem = BuyMilk
  /\ (AppHandleSubmit \/ NewTodoFormHandleSubmit)

ScenarioToggle ==
  /\ Len(todos) = 1
  /\ lastEvent = "submit"
  /\ CheckboxChange(todos[1].id)

ScenarioTypeWalkDog ==
  /\ Len(todos) = 1
  /\ todos[1].completed
  /\ lastEvent \in {"toggle", "change"}
  /\ TypeNextChar(WalkDog)

ScenarioAddWalkDog ==
  /\ Len(todos) = 1
  /\ newItem = WalkDog
  /\ (AppHandleSubmit \/ NewTodoFormHandleSubmit)

ScenarioDelete ==
  /\ Len(todos) = 2
  /\ lastEvent = "submit"
  /\ deleteTodo(todos[1].id)

NextScenario ==
  \/ ScenarioTypeBuyMilk
  \/ ScenarioAddBuyMilk
  \/ ScenarioToggle
  \/ ScenarioTypeWalkDog
  \/ ScenarioAddWalkDog
  \/ ScenarioDelete

SpecScenario == InitScenario /\ [][NextScenario]_vars

(* --------------------- the two forms, side by side --------------------- *)

\* The page of todos and newItem runs src/src/App.tsx, whose form is inline;
\* the page of refactored runs NewTodoForm over the tutorial's App.  Every
\* typing and submit event is given to both.

\* onChange of NewTodoForm's input: setNewItem(e.target.value)
PageSetNewItem(page, value) == [page EXCEPT !.newItem = value]

\* crypto.randomUUID() on the refactored page; one never-issued identifier
\* stands for all of them: the first of the pool
PageRandomUUID(page) ==
  UUIDPool[CHOOSE k \in 1..Len(UUIDPool) :
             /\ UUIDPool[k] \notin page.issued
             /\ \A j \in 1..(k - 1) : UUIDPool[j] \in page.issued]

\* App.addTodo(title) on the refactored page, with the render and its effect
PageAddTodo(page, title) ==
  LET id == PageRandomUUID(page)
      list == AddUpdater(page.todos, id, title)
  IN  [page EXCEPT !.todos = list,
                   !.issued = @ \cup {id},
                   !.store = PersistEffect(list)]

\* NewTodoForm.handleSubmit on the refactored page
PageHandleSubmit(page) ==
  IF page.newItem = <<>>
  THEN page
  ELSE [PageAddTodo(page, page.newItem) EXCEPT !.newItem = <<>>]

\* one change event of the text input, on both pages
FormsChange(value) ==
  /\ status = "running"
  /\ newItem' = value
  /\ refactored' = PageSetNewItem(refactored, value)
  /\ lastEvent' = "change"
  /\ UNCHANGED <<variant, status, todos, store, localValue, issued, queue, pending>>

\* one submit event of the form, on both pages: handleSubmit of
\* src/src/App.tsx on one, NewTodoForm.handleSubmit on the other
FormsSubmit ==
  /\ status = "running"
  /\ Len(todos) < MaxTodos
  /\ \E id \in randomUUID :
       /\ todos' = AddUpdater(todos, id, newItem)
       /\ issued' = issued \cup {id}
  /\ store' = StoreAfterRender(todos')
  /\ newItem' = <<>>
  /\ refactored' = PageHandleSubmit(refactored)
  /\ lastEvent' = "submit"
  /\ UNCHANGED <<variant, status, localValue, queue, pending>>

InitForms ==
  /\ Init
  /\ variant = "inline"

NextForms ==
  \/ \E value \in Titles : FormsChange(value)
  \/ FormsSubmit

SpecForms == InitForms /\ [][NextForms]_vars

(* ------------------------------ properties ----------------------------- *)

NoDuplicateIds(list) ==
  \A i, j \in DOMAIN list : i # j => list[i].id # list[j].id

\* a submission that reaches the add updater
AddingSubmit ==
  \/ AppHandleSubmit
  \/ NewTodoFormHandleSubmit /\ newItem # <<>>

\* C1: adding a record with title T to a list L gives a list of size |L|+1
\* whose last element has title T and completed = false
C1_AddAppendsRecord ==
  [][AddingSubmit =>
       /\ Len(todos') = Len(todos) + 1
       /\ todos'[Len(todos')].title = newItem
       /\ todos'[Len(todos')].completed = FALSE]_vars

C1_Witness ==
  /\ lastEvent = "submit"
  /\ Len(todos) = 2
  /\ todos[2].title = <<"\\", "\"">>
  /\ todos[2].completed = FALSE
  /\ todos[1].completed = TRUE

\* C2: submitting the form while the input text is the empty string leaves
\* the todo list unchanged, whichever form handles the submission
C2_EmptySubmitIgnored ==
  [][(AppHandleSubmit \/ NewTodoFormHandleSubmit) /\ newItem = <<>> =>
       todos' = todos]_vars

\* C3: a toggle of identifier I negates the completed flag of the record with
\* identifier I and leaves every other record as it was
C3_ToggleFlipsOnlyTarget ==
  [][\A id \in UUIDs : CheckboxChange(id) =>
       /\ Len(todos') = Len(todos)
       /\ \A i \in DOMAIN todos :
            IF todos[i].id = id
            THEN /\ todos'[i].completed = ~todos[i].completed
                 /\ todos'[i].id = todos[i].id
                 /\ todos'[i].title = todos[i].title
            ELSE todos'[i] = todos[i]]_vars

C3_Witness ==
  /\ lastEvent = "toggle"
  /\ Len(todos) = 2
  /\ todos[1].completed = FALSE
  /\ todos[2].completed = TRUE

C5_UniqueIds == NoDuplicateIds(todos)

C5_Witness ==
  /\ Len(todos) = 2
  /\ Cardinality(issued) = 3
  /\ todos[1].id # todos[2].id
  /\ lastEvent = "submit"

C8_StartupToleratesBadStore ==
  (variant = "components" /\ lastEvent \in {"mount", "reload"}
     /\ localValue \in {"null", "unparsable"}) =>
       (status = "running" /\ todos = <<>>)

\* C9: serializing a list of todo records and deserializing the text gives
\* back an equal list
C9_RoundTrip ==
  /\ JSONparse(JSONstringify(todos)).ok
  /\ JSONparse(JSONstringify(todos)).value = todos

C9_Witness ==
  /\ Len(todos) = 2
  /\ todos[1].title = <<"a">>
  /\ todos[1].completed = TRUE
  /\ todos[2].title = <<"\\", "\"">>
  /\ JSONparse(JSONstringify(todos)).value = todos

\* C10: every record of the in-memory list has a non-empty title
C10_TitlesNonEmpty ==
  \A i \in DOMAIN todos : todos[i].title # <<>>

\* C11: from the empty list, adding "Buy milk" gives one record with that
\* title and completed = false; toggling it makes completed true; adding
\* "Walk dog" gives two records, "Buy milk" first; deleting the first id
\* leaves exactly one record, titled "Walk dog"
C11_Scenario ==
  /\ lastEvent = "submit" => Cardinality(issued) \in {1, 2}
  /\ (lastEvent = "submit" /\ Cardinality(issued) = 1) =>
       /\ Len(todos) = 1
       /\ todos[1].title = BuyMilk
       /\ todos[1].completed = FALSE
  /\ lastEvent = "toggle" =>
       /\ Len(todos) = 1
       /\ todos[1].title = BuyMilk
       /\ todos[1].completed = TRUE
  /\ (lastEvent = "submit" /\ Cardinality(issued) = 2) =>
       /\ Len(todos) = 2
       /\ todos[1].title = BuyMilk
       /\ todos[1].completed = TRUE
       /\ todos[2].title = WalkDog
       /\ todos[2].completed = FALSE
  /\ lastEvent = "delete" =>
       /\ Len(todos) = 1
       /\ todos[1].title = WalkDog
       /\ todos[1].completed = FALSE

C11_Witness ==
  /\ lastEvent = "delete"
  /\ Cardinality(issued) = 2
  /\ Len(todos) = 1
  /\ todos[1].title = WalkDog

\* the completed value the last queued toggle of id asks for, or else old
LastToggle(updates, id, old) ==
  LET at == {k \in DOMAIN updates : updates[k].op = "toggle" /\ updates[k].id = id}
  IN  IF at = {} THEN old
      ELSE updates[CHOOSE k \in at : \A j \in at : j <= k].completed

\* C12: callbacks issued before the list is rendered again are each applied to
\* the list the previous one produced: the rendered list holds every record
\* not deleted by the batch, with the flag its last toggle asked for, followed
\* by every added record in issue order
C12_NoUpdateLost ==
  [][Render =>
       LET deleted == {queue[k].id : k \in {j \in DOMAIN queue : queue[j].op = "delete"}}
           kept == SelectSeq(todos, LAMBDA t : t.id \notin deleted)
           added == SelectSeq(queue, LAMBDA u : u.op = "add")
       IN  /\ Len(todos') = Len(kept) + Len(added)
           /\ \A i \in DOMAIN kept :
                /\ todos'[i].id = kept[i].id
                /\ todos'[i].title = kept[i].title
                /\ todos'[i].completed = LastToggle(queue, kept[i].id, kept[i].completed)
           /\ \A j \in DOMAIN added :
                /\ todos'[Len(kept) + j].id = added[j].id
                /\ todos'[Len(kept) + j].title = added[j].title
                /\ todos'[Len(kept) + j].completed = FALSE]_vars

C12_Witness ==
  /\ Len(todos) = 1
  /\ Len(queue) = 2
  /\ queue[1].op = "add"
  /\ queue[2].op = "delete"
  /\ queue[2].id = todos[1].id

\* C20 as claimed: after a submission that added the typed title, a second
\* submission with no input change in between adds nothing, also when it is
\* handled before the form has rendered again
C20_SecondSubmitAddsNothing ==
  [][(BatchNewTodoFormHandleSubmit /\ lastEvent = "submit") => queue' = queue]_vars

\* C20 as amended: the render after an adding submission shows the cleared
\* input, and a second submission handled after that render adds nothing; a
\* second submission handled before it still sees the typed title and queues
\* a second record with that title
C20_SecondSubmitAfterRender ==
  [][/\ (Render /\ lastEvent = "submit") => newItem' = <<>>
     /\ (BatchNewTodoFormHandleSubmit /\ lastEvent = "submit") =>
          IF queue = <<>> /\ ~pending.set
          THEN /\ newItem = <<>>
               /\ queue' = queue
               /\ pending' = pending
          ELSE /\ Len(queue') = Len(queue) + 1
               /\ queue'[Len(queue')].op = "add"
               /\ queue'[Len(queue')].title = queue[Len(queue)].title
               /\ queue'[Len(queue')].id # queue[Len(queue)].id]_vars

C20_Witness ==
  /\ lastEvent = "submit"
  /\ Len(queue) = 2
  /\ queue[1].op = "add"
  /\ queue[2].op = "add"
  /\ queue[1].title = queue[2].title
  /\ newItem = queue[1].title

\* C13: after a submission that adds a record the input text is empty; an
\* empty submission adds nothing and leaves the input text as it was
C13_SubmitClearsInput ==
  [][(AppHandleSubmit \/ NewTodoFormHandleSubmit) =>
       IF newItem = <<>>
       THEN todos' = todos /\ newItem' = newItem
       ELSE Len(todos') = Len(todos) + 1 /\ newItem' = <<>>]_vars

\* C14: the list view shows the placeholder "No Todos yet" exactly when the
\* list is empty; otherwise it holds one item per record, in list order, each
\* with the id, title and completed value of its record
C14_ListView ==
  LET view == TodoList(todos)
      texts == SelectSeq(view, LAMBDA n : n.kind = "text")
      items == SelectSeq(view, LAMBDA n : n.kind = "TodoItem")
  IN  /\ Len(texts) = (IF todos = <<>> THEN 1 ELSE 0)
      /\ \A k \in DOMAIN texts : texts[k].text = "No Todos yet"
      /\ Len(view) = Len(texts) + Len(items)
      /\ Len(items) = Len(todos)
      /\ \A i \in DOMAIN todos :
           /\ items[i].id = todos[i].id
           /\ items[i].title = todos[i].title
           /\ items[i].completed = todos[i].completed

C14_Witness ==
  /\ lastEvent = "delete"
  /\ todos = <<>>
  /\ Len(TodoList(todos)) = 1
  /\ TodoList(todos)[1].kind = "text"

\* C15: a toggle changes neither the length of the list, nor the order of the
\* records, nor any id or title; only the completed field of the targeted
\* record can differ
C15_ToggleFrame ==
  [][\A id \in UUIDs, completed \in BOOLEAN : CallToggleTodo(id, completed) =>
       /\ Len(todos') = Len(todos)
       /\ \A i \in DOMAIN todos :
            /\ todos'[i].id = todos[i].id
            /\ todos'[i].title = todos[i].title
            /\ todos[i].id # id => todos'[i].completed = todos[i].completed]_vars

C15_Witness ==
  /\ lastEvent = "toggle"
  /\ Len(todos) = 2
  /\ todos[1].title = <<"\\", "\"">>
  /\ todos[1].completed = TRUE
  /\ todos[2].title = <<"a">>
  /\ todos[2].completed = TRUE

\* C16: the list before an add is a prefix of the list after it, and the
\* identifier of the new record is none of those already in the list
C16_AddFrame ==
  [][AddingSubmit =>
       /\ Len(todos') > Len(todos)
       /\ SubSeq(todos', 1, Len(todos)) = todos
       /\ todos'[Len(todos')].id \notin Ids(todos)]_vars

C16_Witness ==
  /\ lastEvent = "submit"
  /\ Len(todos) = 2
  /\ todos[1].title = <<"\\", "\"">>
  /\ todos[1].completed = TRUE
  /\ todos[2].title = <<"a">>
  /\ todos[2].completed = FALSE

\* C17: toggleTodo(id, c) leaves the targeted record with completed = c,
\* whatever it was, so a second toggleTodo(id, c) changes nothing
C17_ToggleSetsValue ==
  [][\A id \in UUIDs, completed \in BOOLEAN : CallToggleTodo(id, completed) =>
       /\ \A i \in DOMAIN todos' :
            todos'[i].id = id => todos'[i].completed = completed
       /\ ToggleUpdater(todos', id, completed) = todos']_vars

C17_Witness ==
  /\ lastEvent = "toggle"
  /\ Len(todos) = 1
  /\ Cardinality(issued) = 1
  /\ todos[1].completed = FALSE
  /\ todos[1].title = <<"a">>

\* C18: after deleteTodo(id) no record with identifier id is in the list, and
\* deleting id from that list once more gives the same list
C18_DeleteIdempotent ==
  [][\A id \in UUIDs : CallDeleteTodo(id) =>
       /\ id \notin Ids(todos')
       /\ DeleteUpdater(todos', id) = todos']_vars

C18_Witness ==
  /\ variant = "inline"
  /\ lastEvent = "delete"
  /\ Len(todos) = 1
  /\ Cardinality(issued) = 2

\* C19: toggleTodo and deleteTodo called with an identifier that is not in the
\* list, the empty list included, leave the list as it was and raise nothing
C19_AbsentIdIsNoOp ==
  [][\A id \in UUIDs, completed \in BOOLEAN :
       ((CallToggleTodo(id, completed) \/ CallDeleteTodo(id)) /\ id \notin Ids(todos)) =>
          (todos' = todos /\ status' = "running")]_vars

C19_Witness ==
  /\ lastEvent \in {"toggle", "delete"}
  /\ todos = <<>>
  /\ issued = {}

\* what the claim compares of a list: titles and completed flags, in order
TitlesAndFlags(list) ==
  [i \in 1..Len(list) |-> [title |-> list[i].title, completed |-> list[i].completed]]

\* C21: after every sequence of typing and submit events given to both forms,
\* the inline form of App and the refactored NewTodoForm show the same titles
\* and completed flags, in the same order, and the same input text
C21_FormsEquivalent ==
  /\ TitlesAndFlags(todos) = TitlesAndFlags(refactored.todos)
  /\ newItem = refactored.newItem

\* the two forms part only at a submission of the empty input: as long as the
\* inline form has added no empty title, the pages agree
C21_AgreeUntilEmptySubmit ==
  (\A i \in 1..Len(todos) : todos[i].title # <<>>) => C21_FormsEquivalent

\* C22: a change event of the input sets the input text to the typed value
\* and leaves the list as it was; a checkbox change and a delete leave the
\* input text as it was; within one page load the list changes only in a
\* submit, a checkbox change or a delete
C22_Frame ==
  [][/\ \A value \in Titles :
          setNewItem(value) => (newItem' = value /\ todos' = todos)
     /\ \A id \in UUIDs :
          (CheckboxChange(id) \/ deleteTodo(id)) => newItem' = newItem
     /\ (todos' # todos /\ ~Reload) =>
          lastEvent' \in {"submit", "toggle", "delete"}]_vars

C22_Witness ==
  /\ lastEvent = "change"
  /\ newItem = <<"a">>
  /\ Len(todos) = 1
  /\ todos[1].completed
  /\ Cardinality(issued) = 2

====
